---- MODULE Spec2Model ----
(***************************************************************************)
(* A model of coral/sequence/_sequence.py: the Sequence container (heap    *)
(* objects reached through program variables), its search and display      *)
(* functions, and the Feature record.  Strings are sequences of            *)
(* one-character strings.  Python exceptions are the value of an "exc"     *)
(* field ("none" when the call returned).                                  *)
(***************************************************************************)
EXTENDS Integers, Sequences, FiniteSets, TLC

VARIABLES
    env,      \* object model: program variable -> reference (0: no Sequence)
    heap,     \* object model: reference -> Sequence object
    ret,      \* object model: outcome of the last statement
    derived,  \* object model: which variable's value was obtained from which
    subject,  \* function level: the Sequence a function is applied to
    query,    \* function level: the argument of the call
    out,      \* function level: operation -> its outcome, once applied
    feats,    \* features: program variable -> Feature object
    fret      \* features: outcome of the last statement

objvars == <<env, heap, ret, derived>>
funvars == <<subject, query, out>>
featvars == <<feats, fret>>
vars == <<env, heap, ret, derived, subject, query, out, feats, fret>>

-----------------------------------------------------------------------------
(* Bounds of the model *)

\* longest residue string a Sequence may reach in the object model
MaxLen == 2
\* largest repetition factor tried
MaxMul == 3
\* longest raw string given to the constructor or assigned to an item
MaxRaw == 2
\* longest Sequence the search and repetition functions are applied to
MaxSubject == 3
\* longest search pattern
MaxPattern == 3
\* longest annealing template and longest primer binding region
MaxTemplate == 4
MaxBinding == 3
\* largest absolute Feature coordinate reached by move
MaxCoord == 3
\* largest repetition factor applied at function level
MaxFactor == 5
\* longest Sequence displayed
MaxReprLen == 92

-----------------------------------------------------------------------------
(* Python helpers *)

Min(a, b) == IF a < b THEN a ELSE b
Max(a, b) == IF a > b THEN a ELSE b

\* the name=None default argument
PyNone == "None"

\* str.upper() on one character
UpperChar(c) ==
    CASE c = "a" -> "A"
      [] c = "t" -> "T"
      [] c = "u" -> "U"
      [] c = "n" -> "N"
      [] c = "x" -> "X"
      [] OTHER -> c

\* str.lower() on one character
LowerChar(c) ==
    CASE c = "A" -> "a"
      [] c = "T" -> "t"
      [] c = "U" -> "u"
      [] c = "N" -> "n"
      [] c = "X" -> "x"
      [] OTHER -> c

\* str.upper()
Upper(s) == [i \in 1..Len(s) |-> UpperChar(s[i])]

\* the characters of a string, as a set
CharsOf(s) == {s[i] : i \in 1..Len(s)}

\* all strings over the characters cs of length at most n
StringsUpTo(cs, n) == UNION {[1..k -> cs] : k \in 0..n}

\* a Python index i into a sequence of length n, as a 0-based position
\* (negative indices count from the end); in range iff 0 <= result < n
PyIndex(i, n) == IF i < 0 THEN i + n ELSE i

\* a slice bound clamped to 0..n
PyClamp(i, n) == Max(0, Min(n, PyIndex(i, n)))

\* s[a:b] with the default step
PySlice(s, a, b) ==
    SubSeq(s, PyClamp(a, Len(s)) + 1, PyClamp(b, Len(s)))

\* s[:k] and s[k:] for 0 <= k
Take(s, k) == SubSeq(s, 1, Min(k, Len(s)))
Drop(s, k) == SubSeq(s, Min(k, Len(s)) + 1, Len(s))

-----------------------------------------------------------------------------
(* Alphabets: the collaborating object read through alphabet.symbols *)

Alphabets == {"DNA", "RNA"}

Symbols(alphabet) ==
    IF alphabet = "DNA" THEN <<"A", "T">> ELSE <<"A", "U">>

-----------------------------------------------------------------------------
(* class Sequence *)

\* Sequence.__init__: [exc, obj]
SeqInit(sequence, alphabet, skip_checks, any_char, name) ==
    LET seq     == IF skip_checks THEN sequence ELSE Upper(sequence)
        symbols == Symbols(alphabet)
        allowed == CharsOf(symbols) \cup {LowerChar(c) : c \in CharsOf(symbols)}
        bad     == ~skip_checks /\ \E i \in 1..Len(seq) : seq[i] \notin allowed
        obj     == [seq |-> seq, alphabet |-> alphabet, any_char |-> any_char,
                    name |-> IF name = PyNone THEN "" ELSE name]
    IN  [exc |-> IF bad THEN "AlphabetError" ELSE "none", obj |-> obj]

\* Sequence.copy: the new object
SeqCopy(self) ==
    SeqInit(self.seq, self.alphabet, TRUE, self.any_char, PyNone).obj

\* Sequence.__len__
SeqLen(self) == Len(self.seq)

\* Sequence.__str__
SeqStr(self) == self.seq

\* an operand that is a Sequence object / one that is not (a str, an int)
SeqOperand(obj) == [isSeq |-> TRUE, obj |-> obj]
RawOperand == [isSeq |-> FALSE,
               obj |-> [seq |-> <<>>, alphabet |-> "DNA", any_char |-> "N",
                        name |-> ""]]

\* Sequence.__add__: [exc, obj].  An operand of another type is coerced with
\* type(self)(other); Sequence.__init__ requires alphabet, so the call itself
\* raises TypeError (which the except AttributeError clause does not catch).
SeqAdd(self, other) ==
    IF ~other.isSeq
    THEN [exc |-> "TypeError", obj |-> self]
    ELSE [exc |-> "none",
          obj |-> [SeqCopy(self) EXCEPT !.seq = self.seq \o other.obj.seq]]

\* keys of x[key]: an int, or a slice a:b
IntKey(i) == [t |-> "int", a |-> i, b |-> 0]
SliceKey(a, b) == [t |-> "slice", a |-> a, b |-> b]

\* str.__getitem__: [exc, seq]
StrGetItem(seq, key) ==
    IF key.t = "slice"
    THEN [exc |-> "none", seq |-> PySlice(seq, key.a, key.b)]
    ELSE LET i == PyIndex(key.a, Len(seq))
         IN  IF i < 0 \/ i >= Len(seq)
             THEN [exc |-> "IndexError", seq |-> <<>>]
             ELSE [exc |-> "none", seq |-> <<seq[i + 1]>>]

\* Sequence.__getitem__: [exc, obj]
SeqGetItem(self, key) ==
    IF self.seq = <<>>
    THEN IF key.t # "slice"
         THEN [exc |-> "IndexError", obj |-> self]
         ELSE [exc |-> "none", obj |-> SeqCopy(self)]
    ELSE LET new_seq == StrGetItem(self.seq, key)
         IN  IF new_seq.exc # "none"
             THEN [exc |-> new_seq.exc, obj |-> self]
             ELSE [exc |-> "none",
                   obj |-> [SeqCopy(self) EXCEPT !.seq = new_seq.seq]]

\* list.__setitem__ then ''.join: [exc, seq].  An int key replaces one element
\* by the whole string value; a slice key replaces the slice by its characters.
ListSetItem(seq, key, value) ==
    IF key.t = "slice"
    THEN LET a == PyClamp(key.a, Len(seq))
             b == Max(a, PyClamp(key.b, Len(seq)))
         IN  [exc |-> "none", seq |-> Take(seq, a) \o value \o Drop(seq, b)]
    ELSE LET i == PyIndex(key.a, Len(seq))
         IN  IF i < 0 \/ i >= Len(seq)
             THEN [exc |-> "IndexError", seq |-> seq]
             ELSE [exc |-> "none",
                   seq |-> Take(seq, i) \o value \o Drop(seq, i + 1)]

\* list.__delitem__ then ''.join: [exc, seq]
ListDelItem(seq, key) ==
    IF key.t = "slice"
    THEN LET a == PyClamp(key.a, Len(seq))
             b == Max(a, PyClamp(key.b, Len(seq)))
         IN  [exc |-> "none", seq |-> Take(seq, a) \o Drop(seq, b)]
    ELSE LET i == PyIndex(key.a, Len(seq))
         IN  IF i < 0 \/ i >= Len(seq)
             THEN [exc |-> "IndexError", seq |-> seq]
             ELSE [exc |-> "none", seq |-> Take(seq, i) \o Drop(seq, i + 1)]

\* Sequence.__delitem__: [exc, obj], obj the receiver afterwards
SeqDelItem(self, key) ==
    LET r == ListDelItem(self.seq, key)
    IN  [exc |-> r.exc, obj |-> [self EXCEPT !.seq = r.seq]]

\* Sequence.__setitem__ building the value with the alphabet check skipped
SeqSetItem_Unchecked(self, index, new_value) ==
    LET made == SeqInit(new_value, self.alphabet, TRUE, "N", PyNone)
        r    == ListSetItem(self.seq, index, SeqStr(made.obj))
    IN  IF made.exc # "none"
        THEN [exc |-> made.exc, obj |-> self]
        ELSE [exc |-> r.exc, obj |-> [self EXCEPT !.seq = r.seq]]

\* Sequence.__setitem__: [exc, obj], obj the receiver afterwards.  The value is
\* constructed (and validated) before the list assignment is attempted.
SeqSetItem(self, index, new_value) ==
    LET made == SeqInit(new_value, self.alphabet, FALSE, "N", PyNone)
        r    == ListSetItem(self.seq, index, SeqStr(made.obj))
    IN  IF made.exc # "none"
        THEN [exc |-> made.exc, obj |-> self]
        ELSE [exc |-> r.exc, obj |-> [self EXCEPT !.seq = r.seq]]

\* multipliers: an int, a float (v is twice its value, so 1.5 is 3), a str
IntArg(v) == [t |-> "int", v |-> v, s |-> <<>>]
FloatArg(twice) == [t |-> "float", v |-> twice, s |-> <<>>]
StrArg(s) == [t |-> "str", v |-> 0, s |-> s]

\* int(x) of one character: [exc, v]
DigitOf(c) ==
    CASE c = "0" -> [exc |-> "none", v |-> 0]
      [] c = "1" -> [exc |-> "none", v |-> 1]
      [] c = "2" -> [exc |-> "none", v |-> 2]
      [] c = "3" -> [exc |-> "none", v |-> 3]
      [] OTHER -> [exc |-> "ValueError", v |-> 0]

\* int(n): [exc, v].  A float truncates toward zero; a str is parsed (the
\* strings tried have one character).
PyInt(n) ==
    CASE n.t = "int" -> [exc |-> "none", v |-> n.v]
      [] n.t = "float" ->
            [exc |-> "none",
             v |-> IF n.v >= 0 THEN n.v \div 2 ELSE -((-n.v) \div 2)]
      [] OTHER ->
            IF Len(n.s) = 1 THEN DigitOf(n.s[1])
            ELSE [exc |-> "ValueError", v |-> 0]

\* n != int(n), given int(n) = i
DiffersFromInt(n, i) ==
    CASE n.t = "int" -> n.v # i
      [] n.t = "float" -> n.v # 2 * i
      [] OTHER -> TRUE

\* the binary digits of k >= 0, most significant first
RECURSIVE BinDigits(_)
BinDigits(k) ==
    IF k < 2 THEN <<IF k = 1 THEN "1" ELSE "0">>
    ELSE BinDigits(k \div 2) \o <<IF k % 2 = 1 THEN "1" ELSE "0">>

\* bin(n) of an int
Bin(n) ==
    IF n < 0 THEN <<"-", "0", "b">> \o BinDigits(-n)
    ELSE <<"0", "b">> \o BinDigits(n)

\* An item of a list of Sequences: the object, and whether it is the receiver
\* itself (the same object) or a newly made one.
Item(isSelf, obj) == [isSelf |-> isSelf, obj |-> obj]

\* the while loop of _decompose from counter on: the items yielded
RECURSIVE DecomposeLoop(_, _, _)
DecomposeLoop(binary, new_string, counter) ==
    IF counter > Len(binary) THEN <<>>
    ELSE LET yielded == IF binary[Len(binary) + 1 - counter] # 0
                        THEN <<new_string>> ELSE <<>>
             doubled == Item(FALSE, SeqAdd(new_string.obj,
                                           SeqOperand(new_string.obj)).obj)
         IN  yielded \o DecomposeLoop(binary, doubled, counter + 1)

\* _decompose(string, n), run to exhaustion: [exc, items]
Decompose(string, n) ==
    IF n.t # "int"
    THEN [exc |-> "TypeError", items |-> <<>>]      \* bin() of a float
    ELSE LET digits == Drop(Bin(n.v), 2)
             parsed == [i \in 1..Len(digits) |-> DigitOf(digits[i])]
         IN  IF \E i \in 1..Len(digits) : parsed[i].exc # "none"
             THEN [exc |-> "ValueError", items |-> <<>>]
             ELSE [exc |-> "none",
                   items |-> DecomposeLoop([i \in 1..Len(digits) |-> parsed[i].v],
                                           Item(TRUE, string), 1)]

\* Sequence.__radd__ with an int operand (sum() passes its start value 0):
\* [exc, item]; for 0 the item is self, the same object
SeqRadd(self, other) ==
    IF other = 0 THEN [exc |-> "none", item |-> self]
    ELSE [exc |-> "TypeError", item |-> self]

\* sum(items) from the start value 0: [kind, isSelf, obj]; kind "int" is the
\* start value itself (obj is then unused)
RECURSIVE SumFrom(_, _, _)
SumFrom(acc, items, k) ==
    IF k > Len(items) THEN acc
    ELSE SumFrom(Item(FALSE, SeqAdd(acc.obj, SeqOperand(items[k].obj)).obj),
                 items, k + 1)

PySum(items, unused) ==
    IF items = <<>>
    THEN [kind |-> "int", isSelf |-> FALSE, obj |-> unused]
    ELSE LET r == SumFrom(SeqRadd(items[1], 0).item, items, 2)
         IN  [kind |-> "ref", isSelf |-> r.isSelf, obj |-> r.obj]

\* Sequence.__mul__: [exc, kind, isSelf, obj]
SeqMul(self, n) ==
    LET i    == PyInt(n)
        d    == Decompose(self, n)
        fail == [kind |-> "none", isSelf |-> FALSE, obj |-> self]
    IN  IF i.exc # "none" THEN [exc |-> i.exc] @@ fail
        ELSE IF DiffersFromInt(n, i.v) THEN [exc |-> "TypeError"] @@ fail
        ELSE IF d.exc # "none" THEN [exc |-> d.exc] @@ fail
        ELSE [exc |-> "none"] @@ PySum(d.items, self)

------------------------------------------------------------------------------------------------------------------------------------------------\* whether the regular expression pattern (literal symbols, "." for any
\* character) matches seq at the 0-based position i
RegexMatchAt(pattern, seq, i) ==
    /\ i + Len(pattern) <= Len(seq)
    /\ \A j \in 1..Len(pattern) : pattern[j] = "." \/ pattern[j] = seq[i + j]

\* str.replace(any_char, '.') / re.sub(any_char, '.', s), any_char one letter
ReplaceAny(s, any_char) ==
    [i \in 1..Len(s) |-> IF s[i] = any_char THEN "." ELSE s[i]]

\* [m.start() for m in re.finditer('(?=' + pattern + ')', seq)] from position
\* i on: every position 0..len(seq) is tried, in order
RECURSIVE FindIter(_, _, _)
FindIter(pattern, seq, i) ==
    IF i > Len(seq) THEN <<>>
    ELSE (IF RegexMatchAt(pattern, seq, i) THEN <<i>> ELSE <<>>)
            \o FindIter(pattern, seq, i + 1)

\* finditer without the lookahead: a match consumes its characters, so the
\* search resumes after it and overlapping matches are lost
RECURSIVE FindConsuming(_, _, _)
FindConsuming(pattern, seq, i) ==
    IF i > Len(seq) THEN <<>>
    ELSE IF RegexMatchAt(pattern, seq, i)
         THEN <<i>> \o FindConsuming(pattern, seq, i + Max(1, Len(pattern)))
         ELSE FindConsuming(pattern, seq, i + 1)

\* Sequence.locate with the consuming search
SeqLocate_Consuming(self, pattern) ==
    IF Len(pattern) > SeqLen(self)
    THEN [exc |-> "ValueError", matches |-> <<>>]
    ELSE LET starts == FindConsuming(ReplaceAny(Upper(pattern), self.any_char),
                                     self.seq, 0)
         IN  IF starts # <<>> /\ SeqLen(self) = 0
             THEN [exc |-> "ZeroDivisionError", matches |-> <<>>]
             ELSE [exc |-> "none",
                   matches |-> [k \in 1..Len(starts) |-> starts[k] % SeqLen(self)]]

\* Sequence.locate: [exc, matches]
SeqLocate(self, pattern) ==
    IF Len(pattern) > SeqLen(self)
    THEN [exc |-> "ValueError", matches |-> <<>>]
    ELSE LET starts == FindIter(ReplaceAny(Upper(pattern), self.any_char),
                                self.seq, 0)
         IN  IF starts # <<>> /\ SeqLen(self) = 0
             THEN [exc |-> "ZeroDivisionError", matches |-> <<>>]
             ELSE [exc |-> "none",
                   matches |-> [k \in 1..Len(starts) |-> starts[k] % SeqLen(self)]]

\* Sequence.__contains__
SeqContains(self, q) ==
    LET query_str == ReplaceAny(Upper(q), self.any_char)
    IN  \E i \in 0..Len(SeqStr(self)) : RegexMatchAt(query_str, SeqStr(self), i)

\* display_bases, the length from which the display form is cut, ' ... '
DisplayBases == 40
ReprLimit == 90
Ellipsis == <<" ", ".", ".", ".", " ">>

\* Sequence.__repr__ with the length test written as "at most"
SeqRepr_AtMost(self) ==
    IF Len(self.seq) <= ReprLimit
    THEN self.seq
    ELSE Take(self.seq, DisplayBases) \o Ellipsis
            \o Drop(self.seq, PyClamp(-DisplayBases, Len(self.seq)))

\* Sequence.__repr__
SeqRepr(self) ==
    IF Len(self.seq) < ReprLimit
    THEN self.seq
    ELSE Take(self.seq, DisplayBases) \o Ellipsis
            \o Drop(self.seq, PyClamp(-DisplayBases, Len(self.seq)))

-----
(* The object model: program variables bound to Sequence objects on a heap. *)
(* An object no variable refers to is collected.  An object's reference is  *)
(* the rank of the first variable bound to it, so two variables hold the    *)
(* same reference exactly when they are bound to the same object.  derived  *)
(* records <<s, t>> while t holds what copy, slicing, concatenation or      *)
(* repetition returned for the value s holds.                               *)

ProgVars == {"x", "y"}
Rank(v) == IF v = "x" THEN 1 ELSE 2
NewRef == Cardinality(ProgVars) + 1

RawChars == {"a", "U"}
RawInputs == StringsUpTo(RawChars, MaxRaw)
NameInputs == {PyNone, "tmpl"}
ValueInputs == {<<>>, <<"a">>, <<"U">>, <<"U", "a">>}
Keys == {IntKey(i) : i \in (-MaxLen - 1)..MaxLen}
          \cup {SliceKey(a, b) : a \in 0..1, b \in {-1, 1, MaxLen}}
MulArgs == {IntArg(v) : v \in (-2)..MaxMul}
             \cup {FloatArg(3), FloatArg(4), StrArg(<<"a">>), StrArg(<<"2">>)}

NoObj == [seq |-> <<>>, alphabet |-> "DNA", any_char |-> "N", name |-> ""]

\* what the last statement did: the operation, the exception raised ("none"
\* when it returned) and the kind of value returned ("ref": a Sequence)
RetRec(op, exc, kind) == [op |-> op, exc |-> exc, kind |-> kind]

Bound(v) == env[v] # 0

\* the first variable that e binds to reference r
FirstVar(e, r) ==
    CHOOSE v \in ProgVars : e[v] = r /\ \A w \in ProgVars : e[w] = r => Rank(v) <= Rank(w)

\* the statement "t = <value>": t is bound to reference r of heap h (0: the
\* value is no Sequence), the unreferenced objects are collected and the
\* references renamed; parents are the variables whose values r was derived from
Assign(t, r, h, parents) ==
    LET e == [env EXCEPT ![t] = r]
    IN  /\ env' = [v \in ProgVars |->
                     IF e[v] = 0 THEN 0 ELSE Rank(FirstVar(e, e[v]))]
        /\ heap' = [q \in {Rank(FirstVar(e, e[v])) : v \in {w \in ProgVars : e[w] # 0}}
                      |-> h[e[CHOOSE v \in ProgVars : Rank(v) = q]]]
        /\ derived' = {p \in derived : p[1] # t /\ p[2] # t}
                        \cup {<<s, t>> : s \in {w \in parents : w # t /\ r # 0}}

\* t = <a newly made object>
BindNew(t, obj, parents) ==
    Assign(t, NewRef, [q \in DOMAIN heap \cup {NewRef} |->
                          IF q = NewRef THEN obj ELSE heap[q]], parents)

\* t = Sequence(raw, alphabet, name=name)
Construct(t, raw, alphabet, name) ==
    /\ UNCHANGED <<funvars, featvars>>
    /\ LET made == SeqInit(raw, alphabet, FALSE, "N", name)
       IN  IF made.exc # "none"
           THEN /\ ret' = RetRec("init", made.exc, "none")
                /\ UNCHANGED <<env, heap, derived>>
           ELSE /\ ret' = RetRec("init", "none", "ref")
                /\ BindNew(t, made.obj, {})

\* t = s.copy()
Copy(t, s) ==
    /\ Bound(s)
    /\ UNCHANGED <<funvars, featvars>>
    /\ ret' = RetRec("copy", "none", "ref")
    /\ BindNew(t, SeqCopy(heap[env[s]]), {s})

\* t = s[key]
GetItem(t, s, key) ==
    /\ Bound(s)
    /\ UNCHANGED <<funvars, featvars>>
    /\ LET r == SeqGetItem(heap[env[s]], key)
       IN  IF r.exc # "none"
           THEN /\ ret' = RetRec("getitem", r.exc, "none")
                /\ UNCHANGED <<env, heap, derived>>
           ELSE /\ ret' = RetRec("getitem", "none", "ref")
                /\ BindNew(t, r.obj, {s})

\* t = s + o, o a Sequence
Add(t, s, o) ==
    /\ Bound(s) /\ Bound(o)
    /\ UNCHANGED <<funvars, featvars>>
    /\ LET r == SeqAdd(heap[env[s]], SeqOperand(heap[env[o]]))
       IN  /\ Len(r.obj.seq) <= MaxLen
           /\ ret' = RetRec("add", "none", "ref")
           /\ BindNew(t, r.obj, {s, o})

\* t = s + <an operand that is not a Sequence>
AddRaw(t, s) ==
    /\ Bound(s)
    /\ UNCHANGED <<funvars, featvars>>
    /\ LET r == SeqAdd(heap[env[s]], RawOperand)
       IN  /\ r.exc # "none"
           /\ ret' = RetRec("add", r.exc, "none")
           /\ UNCHANGED <<env, heap, derived>>

\* t = s * n
Mul(t, s, n) ==
    /\ Bound(s)
    /\ UNCHANGED <<funvars, featvars>>
    /\ LET r == SeqMul(heap[env[s]], n)
       IN  CASE r.exc # "none" ->
                  /\ ret' = RetRec("mul", r.exc, "none")
                  /\ UNCHANGED <<env, heap, derived>>
             [] r.exc = "none" /\ r.kind = "int" ->
                  /\ ret' = RetRec("mul", "none", "int")
                  /\ Assign(t, 0, heap, {})
             [] r.exc = "none" /\ r.kind = "ref" /\ r.isSelf ->
                  /\ ret' = RetRec("mul", "none", "ref")
                  /\ Assign(t, env[s], heap, {s})
             [] OTHER ->
                  /\ Len(r.obj.seq) <= MaxLen
                  /\ ret' = RetRec("mul", "none", "ref")
                  /\ BindNew(t, r.obj, {s})

\* s[key] = value
SetItem(s, key, value) ==
    /\ Bound(s)
    /\ UNCHANGED <<funvars, featvars>>
    /\ LET r == SeqSetItem(heap[env[s]], key, value)
       IN  /\ Len(r.obj.seq) <= MaxLen
           /\ ret' = RetRec("setitem", r.exc, "none")
           /\ heap' = [heap EXCEPT ![env[s]] = r.obj]
           /\ UNCHANGED <<env, derived>>

\* del s[key]
DelItem(s, key) ==
    /\ Bound(s)
    /\ UNCHANGED <<funvars, featvars>>
    /\ LET r == SeqDelItem(heap[env[s]], key)
       IN  /\ ret' = RetRec("delitem", r.exc, "none")
           /\ heap' = [heap EXCEPT ![env[s]] = r.obj]
           /\ UNCHANGED <<env, derived>>

ObjInit ==
    /\ env = [v \in ProgVars |-> 0]
    /\ heap = [q \in {} |-> NoObj]
    /\ ret = RetRec("none", "none", "none")
    /\ derived = {}

NoOut == [o \in {} |-> 0]

FunIdle == subject = NoObj /\ query = <<>> /\ out = NoOut

FeatIdle ==
    /\ feats = [v \in {} |-> 0]
    /\ fret = [op |-> "none", exc |-> "none"]

Init == ObjInit /\ FunIdle /\ FeatIdle

Next ==
    \/ \E t \in ProgVars, raw \in RawInputs, a \in Alphabets, nm \in NameInputs :
          Construct(t, raw, a, nm)
    \/ \E t, s \in ProgVars : Copy(t, s)
    \/ \E t, s \in ProgVars, key \in Keys : GetItem(t, s, key)
    \/ \E t, s, o \in ProgVars : Add(t, s, o)
    \/ \E t, s \in ProgVars : AddRaw(t, s)
    \/ \E t, s \in ProgVars, n \in MulArgs : Mul(t, s, n)
    \/ \E s \in ProgVars, key \in Keys, value \in ValueInputs : SetItem(s, key, value)
    \/ \E s \in ProgVars, key \in Keys : DelItem(s, key)

Spec == Init /\ [][Next]_vars

-----------------------------------------------------------------------------
(* Function level: a validated Sequence and an argument are drawn, and the  *)
(* function is applied to them.                                             *)

SubjectChars == {"a", "T", "U"}

\* the Sequences Sequence(raw, alphabet) constructs for raw strings up to n long
Constructed(n) ==
    {SeqInit(raw, a, FALSE, "N", PyNone).obj :
        <<raw, a>> \in {ra \in StringsUpTo(SubjectChars, n) \X Alphabets :
                          SeqInit(ra[1], ra[2], FALSE, "N", PyNone).exc = "none"}}

Done(op) == op \in DOMAIN out

\* out with the outcome of op recorded
Record(op, outcome) == [o \in DOMAIN out \cup {op} |-> IF o = op THEN outcome ELSE out[o]]

(* x * n *)
Factors == {IntArg(v) : v \in (-2)..MaxFactor}
             \cup {FloatArg(3), FloatArg(4), StrArg(<<"a">>), StrArg(<<"2">>)}

MulInit ==
    /\ ObjInit /\ FeatIdle
    /\ subject \in Constructed(MaxSubject)
    /\ query \in Factors
    /\ out = NoOut

Repeat ==
    /\ ~Done("mul")
    /\ out' = Record("mul", SeqMul(subject, query))
    /\ UNCHANGED <<objvars, featvars, subject, query>>

SpecMul == MulInit /\ [][Repeat]_vars

(* x.locate(p), p in x *)
Patterns == StringsUpTo({"A", "t", "N"}, MaxPattern)

LocateInit ==
    /\ ObjInit /\ FeatIdle
    /\ subject \in Constructed(MaxSubject)
    /\ query \in Patterns
    /\ out = NoOut

Locate ==
    /\ ~Done("locate")
    /\ out' = Record("locate", SeqLocate(subject, query))
    /\ UNCHANGED <<objvars, featvars, subject, query>>

Contains ==
    /\ ~Done("contains")
    /\ out' = Record("contains", SeqContains(subject, query))
    /\ UNCHANGED <<objvars, featvars, subject, query>>

LocateNext == Locate \/ Contains

SpecLocate == LocateInit /\ [][LocateNext]_vars

(* x[i] = v *)
ItemKeys == {IntKey(i) : i \in (-MaxSubject - 1)..MaxSubject}
ItemValues == StringsUpTo(SubjectChars, MaxRaw)

SetItemInit ==
    /\ ObjInit /\ FeatIdle
    /\ subject \in Constructed(MaxSubject)
    /\ query \in [key : ItemKeys, value : ItemValues]
    /\ out = NoOut

\* the receiver is changed in place; the exception raised and the residues
\* the receiver had before the statement are recorded
AssignItem ==
    /\ ~Done("setitem")
    /\ LET r == SeqSetItem(subject, query.key, query.value)
       IN  /\ subject' = r.obj
           /\ out' = Record("setitem", [exc |-> r.exc, before |-> subject.seq])
    /\ UNCHANGED <<objvars, featvars, query>>

SpecSetItem == SetItemInit /\ [][AssignItem]_vars

(* repr(x), str(x) *)
ReprSeeds == {<<"a">>, <<"T", "a">>, <<"a", "a", "T">>}
Periodic(seed, k) == [i \in 1..k |-> seed[((i - 1) % Len(seed)) + 1]]

ReprInit ==
    /\ ObjInit /\ FeatIdle
    /\ subject \in {SeqInit(Periodic(seed, k), "DNA", FALSE, "N", PyNone).obj :
                      seed \in ReprSeeds, k \in 0..MaxReprLen}
    /\ query = <<>>
    /\ out = NoOut

Repr ==
    /\ ~Done("repr")
    /\ out' = Record("repr", SeqRepr(subject))
    /\ UNCHANGED <<objvars, featvars, subject, query>>

Str ==
    /\ ~Done("str")
    /\ out' = Record("str", SeqStr(subject))
    /\ UNCHANGED <<objvars, featvars, subject, query>>

ReprNext == Repr \/ Str

SpecRepr == ReprInit /\ [][ReprNext]_vars

-----------------------------------------------------------------------------------------------------------------------------------------------------------------------------------------------------------------------------
(* The annealing engine: anneal(template, primer, min_tm, min_len).  The    *)
(* primer is its 5' overhang and its 3' binding region; tm is the melting   *)
(* temperature the external Tm function returns for the binding region.     *)

\* alphabet.complement of DNA
Complement(c) == IF c = "A" THEN "T" ELSE IF c = "T" THEN "A" ELSE c

ReverseComplement(seq) ==
    [i \in 1..Len(seq) |-> Complement(seq[Len(seq) + 1 - i])]

\* the elements of a finite set of integers, ascending
RECURSIVE Ascending(_)
Ascending(S) ==
    IF S = {} THEN <<>>
    ELSE LET m == CHOOSE x \in S : \A y \in S : x <= y
         IN  <<m>> \o Ascending(S \ {m})

\* the strand as it is searched: a circular template is followed by its first
\* len(binding) - 1 residues, so that matches spanning the origin are found
Searched(strand, binding, circular) ==
    IF circular THEN strand \o Take(strand, Max(0, Len(binding) - 1)) ELSE strand

\* a position past the end of a circular template is reduced by its length
WrapPosition(p, n) == IF p > n THEN p - n ELSE p

\* the matches on one strand: [exc, matches], matches of <<position, length>>
StrandMatches(template, strand, binding, circular) ==
    LET loc == SeqLocate([template EXCEPT !.seq = Searched(strand, binding, circular)],
                         binding)
        ends == {WrapPosition(loc.matches[k] + Len(binding), Len(strand)) :
                    k \in 1..Len(loc.matches)}
        asc  == Ascending(ends)
    IN  [exc |-> loc.exc,
         matches |-> [k \in 1..Len(asc) |-> <<asc[k], Len(binding)>>]]

\* anneal: [exc, fwd, rev]
Anneal(template, q) ==
    LET fwd  == StrandMatches(template, template.seq, q.binding, q.circular)
        rev  == StrandMatches(template, ReverseComplement(template.seq),
                              q.binding, q.circular)
        keep == q.tm >= q.min_tm
    IN  IF Len(q.binding) = 0 \/ Len(q.binding) < q.min_len
        THEN [exc |-> "PrimerLengthError", fwd |-> <<>>, rev |-> <<>>]
        ELSE IF fwd.exc # "none"
        THEN [exc |-> fwd.exc, fwd |-> <<>>, rev |-> <<>>]
        ELSE [exc |-> "none",
              fwd |-> IF keep THEN fwd.matches ELSE <<>>,
              rev |-> IF keep THEN rev.matches ELSE <<>>]

DnaChars == {"a", "T"}
Overhangs == {<<>>, <<"A", "T">>}
MinLens == {1, 2}
MinTms == {40}
TmValues == {30, 50}

AnnealInit ==
    /\ ObjInit /\ FeatIdle
    /\ subject \in {t \in Constructed(MaxTemplate) :
                      t.alphabet = "DNA" /\ "U" \notin CharsOf(t.seq)}
    /\ query \in [overhang : Overhangs,
                  binding : {Upper(b) : b \in StringsUpTo(DnaChars, MaxBinding)},
                  circular : BOOLEAN,
                  min_len : MinLens,
                  min_tm : MinTms,
                  tm : TmValues]
    /\ out = NoOut

DoAnneal ==
    /\ ~Done("anneal")
    /\ out' = Record("anneal", Anneal(subject, query))
    /\ UNCHANGED <<objvars, featvars, subject, query>>

SpecAnneal == AnnealInit /\ [][DoAnneal]_vars

-----
(* class Feature *)

\* an optional argument: a value, or None
Some(v) == [isNone |-> FALSE, v |-> v]
NoneOr(v) == [isNone |-> TRUE, v |-> v]

\* coral.sequence.genbank.featurenames
FeatureNames == {"misc_feature", "coding", "primer", "promoter", "terminator", "rbs"}

\* Feature.__init__: [exc, obj]
FeatInit(name, start, stop, feature_type, gene, locus_tag, qualifiers, strand, gaps) ==
    [exc |-> IF feature_type \in FeatureNames THEN "none" ELSE "ValueError",
     obj |-> [name |-> name,
              start |-> PyInt(start).v,
              stop |-> PyInt(stop).v,
              modified |-> FALSE,
              gene |-> gene,
              locus_tag |-> locus_tag,
              qualifiers |-> IF qualifiers.isNone THEN {} ELSE qualifiers.v,
              strand |-> strand,
              gaps |-> IF gaps.isNone THEN <<>> ELSE gaps.v,
              feature_type |-> feature_type]]

\* Feature.move shifting start alone
FeatMove_StartOnly(self, bases) ==
    [self EXCEPT !.start = self.start + bases]

\* Feature.move: the receiver afterwards
FeatMove(self, bases) ==
    [self EXCEPT !.start = self.start + bases, !.stop = self.stop + bases]

\* Feature.copy: the new object (gaps is not passed on)
FeatCopy(self) ==
    FeatInit(self.name, IntArg(self.start), IntArg(self.stop), self.feature_type,
             self.gene, self.locus_tag, Some(self.qualifiers), self.strand,
             NoneOr(<<>>)).obj

\* Feature.__eq__ without the comparison of strand
FeatEq_NoStrand(self, other) ==
    CASE self.name # other.name -> FALSE
      [] self.feature_type # other.feature_type -> FALSE
      [] self.start # other.start -> FALSE
      [] self.stop # other.stop -> FALSE
      [] self.gaps # other.gaps -> FALSE
      [] OTHER -> TRUE

\* Feature.__eq__
FeatEq(self, other) ==
    CASE self.name # other.name -> FALSE
      [] self.feature_type # other.feature_type -> FALSE
      [] self.start # other.start -> FALSE
      [] self.stop # other.stop -> FALSE
      [] self.strand # other.strand -> FALSE
      [] self.gaps # other.gaps -> FALSE
      [] OTHER -> TRUE

\* Feature.__ne__
FeatNe(self, other) == IF ~FeatEq(self, other) THEN TRUE ELSE FALSE

(* Feature objects held by program variables *)

FeatVars == {"f", "g"}

\* constructor arguments: a base call, and calls that differ from it in one
\* argument each
BaseArgs ==
    [name |-> "a", start |-> IntArg(0), stop |-> IntArg(2),
     feature_type |-> "coding", gene |-> "", locus_tag |-> "",
     qualifiers |-> NoneOr({}), strand |-> 0, gaps |-> NoneOr(<<>>)]
FeatureArgs ==
    {BaseArgs,
     [BaseArgs EXCEPT !.name = "b"],
     [BaseArgs EXCEPT !.start = FloatArg(3)],
     [BaseArgs EXCEPT !.stop = IntArg(3)],
     [BaseArgs EXCEPT !.feature_type = "primer"],
     [BaseArgs EXCEPT !.feature_type = "bogus"],
     [BaseArgs EXCEPT !.gene = "galK"],
     [BaseArgs EXCEPT !.locus_tag = "b0757"],
     [BaseArgs EXCEPT !.qualifiers = Some({<<"note", "kinase">>})],
     [BaseArgs EXCEPT !.strand = 1],
     [BaseArgs EXCEPT !.gaps = Some(<<<<0, 1>>>>)]}
MoveArgs == {-1, 1, 2}

FeatRet(op, exc) == [op |-> op, exc |-> exc]
Has(v) == v \in DOMAIN feats
Put(t, obj) == [v \in DOMAIN feats \cup {t} |-> IF v = t THEN obj ELSE feats[v]]

\* t = Feature(...)
NewFeature(t, a) ==
    /\ UNCHANGED <<objvars, funvars>>
    /\ LET made == FeatInit(a.name, a.start, a.stop, a.feature_type, a.gene,
                            a.locus_tag, a.qualifiers, a.strand, a.gaps)
       IN  IF made.exc # "none"
           THEN fret' = FeatRet("init", made.exc) /\ UNCHANGED feats
           ELSE fret' = FeatRet("init", "none") /\ feats' = Put(t, made.obj)

\* t.move(bases)
Move(t, bases) ==
    /\ Has(t)
    /\ UNCHANGED <<objvars, funvars>>
    /\ LET moved == FeatMove(feats[t], bases)
       IN  /\ -MaxCoord <= moved.start /\ moved.stop <= MaxCoord
           /\ feats' = Put(t, moved)
           /\ fret' = FeatRet("move", "none")

\* t = s.copy()
CopyFeature(t, s) ==
    /\ Has(s)
    /\ UNCHANGED <<objvars, funvars>>
    /\ feats' = Put(t, FeatCopy(feats[s]))
    /\ fret' = FeatRet("copy", "none")

\* t.modified = True, as the editing code outside this module sets it
MarkModified(t) ==
    /\ Has(t)
    /\ UNCHANGED <<objvars, funvars>>
    /\ feats' = Put(t, [feats[t] EXCEPT !.modified = TRUE])
    /\ fret' = FeatRet("modified", "none")

\* a == b and a != b
Compare(a, b) ==
    /\ Has(a) /\ Has(b)
    /\ UNCHANGED <<objvars, funvars, feats>>
    /\ fret' = FeatRet("cmp", "none") @@
                 [left |-> a, right |-> b,
                  eq |-> FeatEq(feats[a], feats[b]),
                  ne |-> FeatNe(feats[a], feats[b])]

FeatureInit == ObjInit /\ FunIdle /\ FeatIdle

FeatureNext ==
    \/ \E t \in FeatVars, a \in FeatureArgs : NewFeature(t, a)
    \/ \E t \in FeatVars, d \in MoveArgs : Move(t, d)
    \/ \E t, s \in FeatVars : CopyFeature(t, s)
    \/ \E t \in FeatVars : MarkModified(t)
    \/ \E a, b \in FeatVars : Compare(a, b)

SpecFeature == FeatureInit /\ [][FeatureNext]_vars

-----
(* Properties *)

\* the residues s repeated n times, one concatenation at a time
RECURSIVE Repeated(_, _)
Repeated(s, n) == IF n <= 0 THEN <<>> ELSE s \o Repeated(s, n - 1)

\* pattern p occurs in Sequence s at the 0-based index i, the wildcard
\* standing for any symbol
Occurs(p, s, i) ==
    /\ i + Len(p) <= Len(s.seq)
    /\ \A j \in 1..Len(p) :
          UpperChar(p[j]) = s.any_char \/ UpperChar(p[j]) = s.seq[i + j]

StrictlyAscending(l) == \A j \in 1..(Len(l) - 1) : l[j] < l[j + 1]

\* the display form cut to the first 40 and the last 40 residues
Truncated(s) ==
    SubSeq(s, 1, Min(40, Len(s))) \o <<" ", ".", ".", ".", " ">>
        \o SubSeq(s, Max(1, Len(s) - 39), Len(s))

\* some statement that mutates the value of variable s in place
Mutates(s) ==
    \E key \in Keys :
        \/ \E value \in ValueInputs : SetItem(s, key, value)
        \/ DelItem(s, key)

\* C1: every residue of every Sequence that exists is a symbol of that
\* Sequence's own alphabet (all Sequences start from validated construction).
C1_AlphabetInvariant ==
    \A r \in DOMAIN heap :
        \A i \in 1..Len(heap[r].seq) :
            heap[r].seq[i] \in CharsOf(Symbols(heap[r].alphabet))

\* C2: for an integer n >= 0, x * n is a Sequence whose residues are x's
\* residues repeated exactly n times, with x's alphabet; x * 0 is the empty
\* Sequence.
C2_RepeatExact ==
    (Done("mul") /\ query.t = "int" /\ query.v >= 0) =>
        /\ out["mul"].exc = "none"
        /\ out["mul"].kind = "ref"
        /\ out["mul"].obj.seq = Repeated(subject.seq, query.v)
        /\ out["mul"].obj.alphabet = subject.alphabet

\* C3: x * n with a negative integer n, or with a number n that is not an
\* integer, fails with TypeError and with no other error or result.
C3_BadFactorTypeError ==
    (Done("mul") /\ \/ (query.t = "int" /\ query.v < 0)
                    \/ (query.t = "float" /\ query.v % 2 = 1)) =>
        out["mul"].exc = "TypeError"

\* C4: for a pattern no longer than the Sequence (the empty pattern and the
\* empty Sequence included), locate returns, strictly ascending, exactly the
\* indices in [0, len) at which the pattern occurs.
C4_LocateExact ==
    (Done("locate") /\ Len(query) <= Len(subject.seq)) =>
        /\ out["locate"].exc = "none"
        /\ StrictlyAscending(out["locate"].matches)
        /\ {out["locate"].matches[k] : k \in 1..Len(out["locate"].matches)}
              = {i \in 0..(Len(subject.seq) - 1) : Occurs(query, subject, i)}

\* C5: if locate(p) returns a non-empty list then p in s; and for a
\* wildcard-free p, if p in s then locate(p) returns a non-empty list.
C5_LocateAgreesWithContains ==
    (Done("locate") /\ Done("contains")) =>
        /\ (out["locate"].exc = "none" /\ out["locate"].matches # <<>>)
              => out["contains"]
        /\ ((\A j \in 1..Len(query) : UpperChar(query[j]) # subject.any_char)
              /\ out["contains"])
              => (out["locate"].exc = "none" /\ out["locate"].matches # <<>>)

\* C6: when y was obtained from x by copy, slicing, concatenation or
\* repetition, mutating y in place leaves x's residues unchanged and mutating
\* x leaves y's residues unchanged.
C6_MutationOnlyReceiver ==
    [][\A p \in derived :
          /\ Mutates(p[2]) => heap'[env'[p[1]]].seq = heap[env[p[1]]].seq
          /\ Mutates(p[1]) => heap'[env'[p[2]]].seq = heap[env[p[2]]].seq]_vars

\* C8: copy() returns a Sequence with the receiver's residues, alphabet,
\* any_char and name; slicing and concatenation results keep alphabet and
\* any_char and carry no name.
C8_CopyKeepsName ==
    [][\A t, s \in ProgVars :
          /\ Copy(t, s) =>
                /\ heap'[env'[t]].seq = heap[env[s]].seq
                /\ heap'[env'[t]].alphabet = heap[env[s]].alphabet
                /\ heap'[env'[t]].any_char = heap[env[s]].any_char
                /\ heap'[env'[t]].name = heap[env[s]].name
          /\ ((\E key \in Keys : GetItem(t, s, key)) \/ (\E o \in ProgVars : Add(t, s, o)))
                /\ ret'.exc = "none" =>
                /\ heap'[env'[t]].alphabet = heap[env[s]].alphabet
                /\ heap'[env'[t]].any_char = heap[env[s]].any_char
                /\ heap'[env'[t]].name = ""]_vars

\* C9 as stated: repr is the full residue string whenever the length is at
\* most 90 and the truncated form exactly when it exceeds 90; str is always
\* the full residue string.
C9_ReprLimitInclusive ==
    /\ Done("repr") =>
          /\ Len(subject.seq) <= 90 => out["repr"] = subject.seq
          /\ Len(subject.seq) > 90 <=> out["repr"] = Truncated(subject.seq)
    /\ Done("str") => out["str"] = subject.seq

\* C9 amended: repr is the full residue string whenever the length is below
\* 90 and the truncated form exactly when it is 90 or more; str is always the
\* full residue string.
C9_ReprLimitExclusive ==
    /\ Done("repr") =>
          /\ Len(subject.seq) < 90 => out["repr"] = subject.seq
          /\ Len(subject.seq) >= 90 <=> out["repr"] = Truncated(subject.seq)
    /\ Done("str") => out["str"] = subject.seq

\* C9 witness: a Sequence of exactly 90 residues was displayed truncated, and
\* its str is the full 90 residues
C9_Witness ==
    /\ Done("repr") /\ Done("str")
    /\ Len(subject.seq) = 90
    /\ Len(out["repr"]) = 85
    /\ Len(out["str"]) = 90

OccurrenceStarts(strand, binding, circular) ==
    LET read == IF circular
                THEN strand \o SubSeq(strand, 1, Min(Len(binding) - 1, Len(strand)))
                ELSE strand
    IN  {m \in 0..(Len(strand) - 1) :
            /\ m + Len(binding) <= Len(read)
            /\ \A j \in 1..Len(binding) : binding[j] = read[m + j]}

\* the matches report exactly the occurrences starts: as many, and for each
\* start m the position m + len(binding), less the template length when past it
ReportsAll(matches, starts, k, n) ==
    /\ Len(matches) = Cardinality(starts)
    /\ \A m \in starts :
          \E i \in 1..Len(matches) :
              matches[i][1] = IF m + k > n THEN m + k - n ELSE m + k

C11_MoveShiftsBoth ==
    [][\A t \in FeatVars, d \in MoveArgs :
          Move(t, d) =>
              LET before == feats[t]
                  after  == feats'[t]
              IN  /\ after.start = before.start + d
                  /\ after.stop = before.stop + d
                  /\ after.stop - after.start = before.stop - before.start
                  /\ after.name = before.name
                  /\ after.feature_type = before.feature_type
                  /\ after.strand = before.strand
                  /\ after.gaps = before.gaps
                  /\ after.gene = before.gene
                  /\ after.locus_tag = before.locus_tag
                  /\ after.qualifiers = before.qualifiers
                  /\ after.modified = before.modified
                  /\ DOMAIN feats' = DOMAIN feats
                  /\ \A v \in DOMAIN feats \ {t} : feats'[v] = feats[v]
                  /\ \A b \in MoveArgs : FeatMove(after, b) = FeatMove(before, d + b)
                  /\ FeatMove(after, -d) = before]_vars

\* C11 witness: a Feature with gaps, marked modified, was moved to a negative
\* start while another Feature exists
C11_Witness ==
    /\ fret.op = "move"
    /\ DOMAIN feats = FeatVars
    /\ \E t \in FeatVars :
          /\ feats[t].start < 0
          /\ feats[t].gaps # <<>>
          /\ feats[t].modified
          /\ feats[t].stop - feats[t].start = 2

\* C13: copy() returns a Feature equal to the original under Feature
\* equality, in both directions, for every Feature (those with a non-empty
\* gaps list and those that were moved included).
C13_CopyEqualsOriginal ==
    [][\A t, s \in FeatVars :
          CopyFeature(t, s) =>
              /\ FeatEq(feats[s], feats'[t])
              /\ FeatEq(feats'[t], feats[s])
              /\ ~FeatNe(feats[s], feats'[t])]_vars

\* C12: x[i] = v validates v against x's alphabet before x is changed.  When v
\* has a character outside the alphabet the assignment fails with
\* AlphabetError, when i is out of range it fails with IndexError, and in both
\* cases x's residues are as before; when it succeeds the residue at position
\* i is replaced by the uppercased v and the residues before and after it keep
\* their values and order.
C12_SetItemValidatesFirst ==
    Done("setitem") =>
        LET old     == out["setitem"].before
            new     == subject.seq
            exc     == out["setitem"].exc
            n       == Len(old)
            i       == IF query.key.a < 0 THEN query.key.a + n ELSE query.key.a
            allowed == {c : c \in CharsOf(Symbols(subject.alphabet))}
            valid   == \A j \in 1..Len(query.value) :
                          UpperChar(query.value[j]) \in allowed
            inRange == 0 <= i /\ i < n
        IN  /\ ~valid => (exc = "AlphabetError" /\ new = old)
            /\ (valid /\ ~inRange) => (exc = "IndexError" /\ new = old)
            /\ (valid /\ inRange) =>
                  /\ exc = "none"
                  /\ new = SubSeq(old, 1, i) \o Upper(query.value)
                             \o SubSeq(old, i + 2, n)

\* C12 witness: an assignment of a value with a character outside the
\* alphabet, at an index in range of a non-empty Sequence, was refused
C12_Witness ==
    /\ Done("setitem")
    /\ out["setitem"].exc = "AlphabetError"
    /\ Len(subject.seq) = MaxSubject
    /\ query.key.a = -1
    /\ Len(query.value) = 2

====
